---- MODULE Spec2Model ----
(***************************************************************************)
(* Graph coloring simulator: the greedy coloring engine of                 *)
(* lib/graph-utils.ts, the editing state machine of                        *)
(* components/graph-canvas.tsx and the control handlers of                 *)
(* components/graph-coloring-simulator.tsx.                                *)
(*                                                                         *)
(* Coordinates are integers (the example generators' cos/sin values are    *)
(* rounded); a vertex is a record [id, x, y, color]; null is NULL.         *)
(***************************************************************************)
EXTENDS Integers, Sequences, FiniteSets, TLC

\* null of `number | null` (ids and colors are >= 0)
NULL == -1

\* ------------------------------------------------------------------------
\* Bounds of the model
\* ------------------------------------------------------------------------
\* vertices the user may draw by hand (examples are loaded whole)
MaxVertices == 3
\* edges the user may draw by hand
MaxEdges == 2
\* drag moves that change a position
MaxMoves == 1
\* vertices of an argument graph handed to the engine directly
MaxN == 3
\* largest prior color carried by an argument vertex
MaxColor == 1

\* ------------------------------------------------------------------------
\* Small helpers
\* ------------------------------------------------------------------------
Range(s) == {s[i] : i \in 1..Len(s)}

SetMax(S) == CHOOSE m \in S : \A k \in S : k <= m

SetMin(S) == CHOOSE m \in S : \A k \in S : m <= k

Ids(vs) == {vs[i].id : i \in 1..Len(vs)}

\* Array.prototype.find((v) => v.id === id): index of the first match, 0 if none
findIndex(vs, id) ==
  LET I == {i \in 1..Len(vs) : vs[i].id = id}
  IN IF I = {} THEN 0 ELSE SetMin(I)

\* ------------------------------------------------------------------------
\* lib/graph-utils.ts
\* ------------------------------------------------------------------------
\* adjacencyList[edge.source].push(...) on a missing key raises a TypeError
createAdjacencyListThrows(vs, es) ==
  \E k \in 1..Len(es) : es[k].source \notin Ids(vs) \/ es[k].target \notin Ids(vs)

\* a copy that enters each edge at its source only
RECURSIVE addEdgesToAdjacencyOneWay(_, _, _)
addEdgesToAdjacencyOneWay(adj, es, k) ==
  IF k > Len(es) THEN adj
  ELSE addEdgesToAdjacencyOneWay([adj EXCEPT ![es[k].source] = Append(@, es[k].target)],
                                 es, k + 1)

RECURSIVE addEdgesToAdjacency(_, _, _)
addEdgesToAdjacency(adj, es, k) ==
  IF k > Len(es) THEN adj
  ELSE LET e == es[k]
           a1 == [adj EXCEPT ![e.source] = Append(@, e.target)]
           a2 == [a1 EXCEPT ![e.target] = Append(@, e.source)]
       IN addEdgesToAdjacency(a2, es, k + 1)

createAdjacencyList(vs, es) ==
  addEdgesToAdjacency([id \in Ids(vs) |-> <<>>], es, 1)

\* the colors of the neighbours that carry one at this moment
usedColors(vs, neighbors) ==
  {vs[findIndex(vs, nb)].color :
     nb \in {n \in Range(neighbors) :
               /\ findIndex(vs, n) # 0
               /\ vs[findIndex(vs, n)].color # NULL}}

\* a loop that never advances: every vertex gets color 0
smallestUnusedColorZero(used) == 0

\* let color = 0; while (usedColors.has(color)) color++
smallestUnusedColor(used) ==
  CHOOSE c \in 0..Cardinality(used) :
    /\ c \notin used
    /\ \A d \in 0..(c - 1) : d \in used

\* one iteration of the coloring loop: vertex.color = color (in place)
colorVertex(vs, adj, i) ==
  [vs EXCEPT ![i].color = smallestUnusedColor(usedColors(vs, adj[vs[i].id]))]

RECURSIVE colorLoop(_, _, _)
colorLoop(vs, adj, i) ==
  IF i > Len(vs) THEN vs
  ELSE colorLoop(colorVertex(vs, adj, i), adj, i + 1)

\* v.color || 0
colorOrZero(c) == IF c = NULL THEN 0 ELSE c

\* the largest color instead of the number of colors
numColorsOfMax(vs) == SetMax({colorOrZero(vs[i].color) : i \in 1..Len(vs)})

\* Math.max(...vs.map((v) => v.color || 0)) + 1
numColorsOf(vs) == SetMax({colorOrZero(vs[i].color) : i \in 1..Len(vs)}) + 1

\* verticesCopy = [...vertices] shares the vertex objects with the argument,
\* so the loop reads whatever colors the argument carries
colorGraph(vs, es) ==
  LET colored == colorLoop(vs, createAdjacencyList(vs, es), 1)
  IN [coloredVertices |-> colored, numColors |-> numColorsOf(colored)]

\* a copy that keeps the colors
clearColorsKeep(vs) == vs

\* vertices.map((v) => ({ ...v, color: null }))
clearColors(vs) == [i \in 1..Len(vs) |-> [vs[i] EXCEPT !.color = NULL]]

RECURSIVE stepLoop(_, _, _, _)
stepLoop(vs, adj, i, steps) ==
  IF i > Len(vs) THEN steps
  ELSE LET next == colorVertex(vs, adj, i)
       IN stepLoop(next, adj, i + 1, Append(steps, next))

colorGraphStepByStep(vs, es) ==
  LET verticesCopy == clearColors(vs)
  IN stepLoop(verticesCopy, createAdjacencyList(verticesCopy, es), 1, <<verticesCopy>>)

Vertex(id, x, y) == [id |-> id, x |-> x, y |-> y, color |-> NULL]

Edge(s, t) == [source |-> s, target |-> t]

getCycleGraph ==
  [vertices |-> << Vertex(0, 450, 300), Vertex(1, 346, 443), Vertex(2, 179, 388),
                   Vertex(3, 179, 212), Vertex(4, 346, 157) >>,
   edges |-> [i \in 1..5 |-> Edge(i - 1, i % 5)]]

getCompleteGraph ==
  [vertices |-> << Vertex(0, 450, 300), Vertex(1, 300, 450),
                   Vertex(2, 150, 300), Vertex(3, 300, 150) >>,
   edges |-> << Edge(0, 1), Edge(0, 2), Edge(0, 3), Edge(1, 2), Edge(1, 3), Edge(2, 3) >>]

getBipartiteGraph ==
  [vertices |-> [i \in 1..6 |->
                   IF i <= 3 THEN Vertex(i - 1, 200, 150 + (i - 1) * 150)
                   ELSE Vertex(i - 1, 400, 150 + (i - 4) * 150)],
   edges |-> << Edge(0, 3), Edge(0, 4), Edge(1, 3), Edge(1, 5), Edge(2, 4), Edge(2, 5) >>]

getPetersenGraph ==
  [vertices |-> << Vertex(0, 450, 300), Vertex(1, 346, 443), Vertex(2, 179, 388),
                   Vertex(3, 179, 212), Vertex(4, 346, 157),
                   Vertex(5, 361, 344), Vertex(6, 277, 371), Vertex(7, 225, 300),
                   Vertex(8, 277, 229), Vertex(9, 361, 256) >>,
   edges |-> [i \in 1..15 |->
                IF i <= 5 THEN Edge(i - 1, i % 5)
                ELSE IF i <= 10 THEN Edge(i - 6, i - 1)
                ELSE Edge(5 + (i - 11), 5 + ((i - 11 + 2) % 5))]]

ExampleNames == {"cycle", "complete", "bipartite", "petersen"}

getExampleGraph(example) ==
  CASE example = "cycle" -> getCycleGraph
    [] example = "complete" -> getCompleteGraph
    [] example = "bipartite" -> getBipartiteGraph
    [] example = "petersen" -> getPetersenGraph
    [] OTHER -> [vertices |-> <<>>, edges |-> <<>>]

\* ------------------------------------------------------------------------
\* State
\* ------------------------------------------------------------------------
VARIABLES
  \* components/graph-coloring-simulator.tsx (useState)
  vertices, edges, selectedVertex, chromaticNumber, status,
  isStepByStep, currentStep, coloringSteps,
  \* components/graph-canvas.tsx (useState)
  hoveredVertex, isDragging, draggedVertex,
  \* shared[i]: vertices[i] is the very object coloringSteps[currentStep - 1][i]
  \* (setVertices(stepVertices) stores the snapshot array itself)
  shared,
  \* whether the last handler raised an exception
  threw,
  \* number of drag moves that changed a position so far
  moves,
  \* a direct call of the engine: its arguments, its return value, its position
  argVertices, argEdges, ret, fnPc

simVars == <<vertices, edges, selectedVertex, chromaticNumber, status,
             isStepByStep, currentStep, coloringSteps>>

canvasVars == <<hoveredVertex, isDragging, draggedVertex>>

fnVars == <<argVertices, argEdges, ret, fnPc>>

vars == <<vertices, edges, selectedVertex, chromaticNumber, status,
          isStepByStep, currentStep, coloringSteps,
          hoveredVertex, isDragging, draggedVertex,
          shared, threw, moves,
          argVertices, argEdges, ret, fnPc>>

\* ------------------------------------------------------------------------
\* Status texts
\* ------------------------------------------------------------------------
Status(msg, a, b, ex) == [msg |-> msg, a |-> a, b |-> b, ex |-> ex]

\* "Draw a graph or load an example."
StatusDraw == Status("draw", 0, 0, "")

\* "Cannot color an empty graph. Add vertices and edges."
StatusEmpty == Status("empty", 0, 0, "")

\* `Graph colored successfully using ${numColors} color(s).`
StatusColored(n) == Status("colored", n, 0, "")

\* "Click 'Next Step' to begin coloring vertices one by one."
StatusBegin == Status("begin", 0, 0, "")

\* `Colored vertex ${id} with color ${color! + 1}.`  (null + 1 is 1)
StatusVertex(id, color) == Status("vertex", id, colorOrZero(color) + 1, "")

\* `Loaded example: ${example}. ...`
StatusLoaded(example) == Status("loaded", 0, 0, example)

NoRet == [coloredVertices |-> <<>>, numColors |-> 0, steps |-> <<>>]

NoShare(vs) == [i \in 1..Len(vs) |-> FALSE]

Init ==
  /\ vertices = <<>>
  /\ edges = <<>>
  /\ selectedVertex = NULL
  /\ chromaticNumber = NULL
  /\ status = StatusDraw
  /\ isStepByStep = FALSE
  /\ currentStep = 0
  /\ coloringSteps = <<>>
  /\ hoveredVertex = NULL
  /\ isDragging = FALSE
  /\ draggedVertex = NULL
  /\ shared = <<>>
  /\ threw = FALSE
  /\ moves = 0
  /\ argVertices = <<>>
  /\ argEdges = <<>>
  /\ ret = NoRet
  /\ fnPc = "idle"

\* ------------------------------------------------------------------------
\* components/graph-canvas.tsx
\* ------------------------------------------------------------------------
VERTEX_RADIUS == 20

\* pointer positions the user tries: the places of vertex 0 of the cycle,
\* complete and Petersen examples and of vertex 0 of the bipartite example
Points == {<<450, 300>>, <<200, 150>>}

PointerPoints == Points

\* distance <= VERTEX_RADIUS
withinRadius(v, x, y) ==
  (v.x - x) * (v.x - x) + (v.y - y) * (v.y - y) <= VERTEX_RADIUS * VERTEX_RADIUS

\* scan from the last vertex to the first, the id of the first hit or null
getVertexAtPosition(vs, x, y) ==
  LET H == {i \in 1..Len(vs) : withinRadius(vs[i], x, y)}
  IN IF H = {} THEN NULL ELSE vs[SetMax(H)].id

\* a test that misses the opposite orientation
edgeExistsOneWay(es, s, t) ==
  \E k \in 1..Len(es) : es[k].source = s /\ es[k].target = t

edgeExists(es, s, t) ==
  \E k \in 1..Len(es) :
    \/ es[k].source = s /\ es[k].target = t
    \/ es[k].source = t /\ es[k].target = s

\* an id taken from the number of vertices
newIdByLength(vs) == Len(vs)

\* vertices.length > 0 ? Math.max(...vertices.map((v) => v.id)) + 1 : 0
newId(vs) == IF Len(vs) > 0 THEN SetMax(Ids(vs)) + 1 ELSE 0

\* a copy that puts the new vertex in front
addVertexFirst(vs, x, y) == <<Vertex(newId(vs), x, y)>> \o vs

\* a copy that gives the new vertex the first color
addVertexColored(vs, x, y) == Append(vs, [Vertex(newId(vs), x, y) EXCEPT !.color = 0])

addVertex(vs, x, y) == Append(vs, Vertex(newId(vs), x, y))

\* a copy that stores the edge from the pressed vertex to the selected one
addEdgeReversed(es, s, t) ==
  IF ~edgeExists(es, s, t) /\ s # t THEN Append(es, Edge(t, s)) ELSE es

\* setEdges([...edges, { source, target }]) unless adjacent already
addEdge(es, s, t) ==
  IF ~edgeExists(es, s, t) /\ s # t THEN Append(es, Edge(s, t)) ELSE es

\* a copy that moves every vertex
moveVertexAll(vs, id, x, y) == [i \in 1..Len(vs) |-> [vs[i] EXCEPT !.x = x, !.y = y]]

\* vertices.map((v) => (v.id === draggedVertex ? { ...v, x, y } : v))
moveVertex(vs, id, x, y) ==
  [i \in 1..Len(vs) |-> IF vs[i].id = id THEN [vs[i] EXCEPT !.x = x, !.y = y] ELSE vs[i]]

\* a copy that begins no drag when the press deselects
handleMouseDownTable(x, y) ==
  LET vertexId == getVertexAtPosition(vertices, x, y) IN
  /\ IF vertexId # NULL
     THEN /\ IF selectedVertex = NULL
             THEN /\ selectedVertex' = vertexId
                  /\ edges' = edges
             ELSE IF selectedVertex = vertexId
             THEN /\ selectedVertex' = NULL
                  /\ edges' = edges
             ELSE /\ edges' = addEdge(edges, selectedVertex, vertexId)
                  /\ Len(edges') <= MaxEdges \/ edges' = edges
                  /\ selectedVertex' = NULL
          /\ IF selectedVertex = vertexId
             THEN UNCHANGED <<isDragging, draggedVertex>>
             ELSE /\ isDragging' = TRUE
                  /\ draggedVertex' = vertexId
          /\ UNCHANGED <<vertices, shared>>
     ELSE /\ IF selectedVertex = NULL
             THEN /\ Len(vertices) < MaxVertices
                  /\ vertices' = addVertex(vertices, x, y)
                  /\ shared' = Append(shared, FALSE)
                  /\ selectedVertex' = selectedVertex
             ELSE /\ selectedVertex' = NULL
                  /\ UNCHANGED <<vertices, shared>>
          /\ UNCHANGED <<edges, isDragging, draggedVertex>>
  /\ threw' = FALSE
  /\ UNCHANGED <<chromaticNumber, status, isStepByStep, currentStep, coloringSteps,
                 hoveredVertex, moves>>
  /\ UNCHANGED fnVars

handleMouseDown(x, y) ==
  LET vertexId == getVertexAtPosition(vertices, x, y) IN
  /\ IF vertexId # NULL
     THEN /\ IF selectedVertex = NULL
             THEN /\ selectedVertex' = vertexId
                  /\ edges' = edges
             ELSE IF selectedVertex = vertexId
             THEN /\ selectedVertex' = NULL
                  /\ edges' = edges
             ELSE /\ edges' = addEdge(edges, selectedVertex, vertexId)
                  /\ Len(edges') <= MaxEdges \/ edges' = edges
                  /\ selectedVertex' = NULL
          /\ isDragging' = TRUE
          /\ draggedVertex' = vertexId
          /\ UNCHANGED <<vertices, shared>>
     ELSE /\ IF selectedVertex = NULL
             THEN /\ Len(vertices) < MaxVertices
                  /\ vertices' = addVertex(vertices, x, y)
                  /\ shared' = Append(shared, FALSE)
                  /\ selectedVertex' = selectedVertex
             ELSE /\ selectedVertex' = NULL
                  /\ UNCHANGED <<vertices, shared>>
          /\ UNCHANGED <<edges, isDragging, draggedVertex>>
  /\ threw' = FALSE
  /\ UNCHANGED <<chromaticNumber, status, isStepByStep, currentStep, coloringSteps,
                 hoveredVertex, moves>>
  /\ UNCHANGED fnVars

handleMouseMove(x, y) ==
  /\ hoveredVertex' = getVertexAtPosition(vertices, x, y)
  /\ IF isDragging /\ draggedVertex # NULL
     THEN /\ vertices' = moveVertex(vertices, draggedVertex, x, y)
          /\ shared' = [i \in 1..Len(vertices) |->
                          IF vertices[i].id = draggedVertex THEN FALSE ELSE shared[i]]
          /\ IF vertices' # vertices
             THEN moves < MaxMoves /\ moves' = moves + 1
             ELSE moves' = moves
     ELSE UNCHANGED <<vertices, shared, moves>>
  /\ threw' = FALSE
  /\ UNCHANGED <<edges, selectedVertex, chromaticNumber, status, isStepByStep,
                 currentStep, coloringSteps, isDragging, draggedVertex>>
  /\ UNCHANGED fnVars

handleMouseUp ==
  /\ isDragging' = FALSE
  /\ draggedVertex' = NULL
  /\ threw' = FALSE
  /\ UNCHANGED <<simVars, hoveredVertex, shared, moves>>
  /\ UNCHANGED fnVars

handleMouseLeave ==
  /\ hoveredVertex' = NULL
  /\ isDragging' = FALSE
  /\ draggedVertex' = NULL
  /\ threw' = FALSE
  /\ UNCHANGED <<simVars, shared, moves>>
  /\ UNCHANGED fnVars

\* ------------------------------------------------------------------------
\* components/graph-coloring-simulator.tsx
\* ------------------------------------------------------------------------
\* a copy that keeps the colors as they are
colorAllZeroKeep(vs) == vs

\* vertices.map((v) => ({ ...v, color: 0 }))
colorAllZero(vs) == [i \in 1..Len(vs) |-> [vs[i] EXCEPT !.color = 0]]

\* colorGraph assigns vertex.color on the objects of the state array; an object
\* that is also an element of the displayed snapshot changes there too
writeThrough(steps, colored) ==
  IF \E i \in 1..Len(shared) : shared[i]
  THEN [steps EXCEPT ![currentStep] =
          [i \in 1..Len(@) |->
             IF i <= Len(shared) /\ shared[i]
             THEN [@[i] EXCEPT !.color = colored[i].color]
             ELSE @[i]]]
  ELSE steps

\* an emptiness test that never fires
isEmptyGraphNever(vs) == FALSE

\* vertices.length === 0, the guard of both coloring requests
isEmptyGraph(vs) == Len(vs) = 0

handleColorGraph ==
  /\ IF isEmptyGraph(vertices)
     THEN /\ status' = StatusEmpty
          /\ threw' = FALSE
          /\ UNCHANGED <<vertices, chromaticNumber, coloringSteps, shared>>
     ELSE IF Len(edges) = 0
     THEN /\ vertices' = colorAllZero(vertices)
          /\ chromaticNumber' = 1
          /\ status' = StatusColored(1)
          /\ shared' = NoShare(vertices)
          /\ threw' = FALSE
          /\ UNCHANGED coloringSteps
     ELSE IF createAdjacencyListThrows(vertices, edges)
     THEN /\ threw' = TRUE
          /\ UNCHANGED <<vertices, chromaticNumber, status, coloringSteps, shared>>
     ELSE LET r == colorGraph(vertices, edges) IN
          /\ vertices' = r.coloredVertices
          /\ chromaticNumber' = r.numColors
          /\ status' = StatusColored(r.numColors)
          /\ coloringSteps' = writeThrough(coloringSteps, r.coloredVertices)
          /\ threw' = FALSE
          /\ UNCHANGED shared
  /\ UNCHANGED <<edges, selectedVertex, isStepByStep, currentStep, canvasVars, moves>>
  /\ UNCHANGED fnVars

\* resetColoring() runs first; when colorGraphStepByStep then raises, the state
\* updates resetColoring queued are still applied
handleStepByStepColoring ==
  /\ IF isEmptyGraph(vertices)
     THEN /\ status' = StatusEmpty
          /\ threw' = FALSE
          /\ UNCHANGED <<vertices, chromaticNumber, isStepByStep, currentStep,
                         coloringSteps, shared>>
     ELSE /\ vertices' = clearColors(vertices)
          /\ chromaticNumber' = NULL
          /\ currentStep' = 0
          /\ shared' = NoShare(vertices)
          /\ IF createAdjacencyListThrows(vertices, edges)
             THEN /\ status' = StatusDraw
                  /\ isStepByStep' = FALSE
                  /\ coloringSteps' = <<>>
                  /\ threw' = TRUE
             ELSE /\ coloringSteps' = colorGraphStepByStep(vertices, edges)
                  /\ isStepByStep' = TRUE
                  /\ status' = StatusBegin
                  /\ threw' = FALSE
  /\ UNCHANGED <<edges, selectedVertex, canvasVars, moves>>
  /\ UNCHANGED fnVars

\* stepVertices.find((v, i) => currentStep === 0 || v.color !== previous[i].color)
justColoredIndex(stepVertices, previous, step) ==
  LET J == {i \in 1..Len(stepVertices) :
              step = 0 \/ stepVertices[i].color # previous[i].color}
  IN IF J = {} THEN 0 ELSE SetMin(J)

handleNextStep ==
  /\ IF currentStep < Len(coloringSteps)
     THEN LET stepVertices == coloringSteps[currentStep + 1]
              previous == IF currentStep = 0 THEN <<>> ELSE coloringSteps[currentStep]
              j == justColoredIndex(stepVertices, previous, currentStep)
              numColors == numColorsOf(stepVertices)
          IN /\ vertices' = stepVertices
             /\ shared' = [i \in 1..Len(stepVertices) |-> TRUE]
             /\ currentStep' = currentStep + 1
             /\ IF currentStep = Len(coloringSteps) - 1
                THEN /\ chromaticNumber' = numColors
                     /\ status' = StatusColored(numColors)
                ELSE /\ chromaticNumber' = chromaticNumber
                     /\ status' = IF j # 0
                                  THEN StatusVertex(stepVertices[j].id, stepVertices[j].color)
                                  ELSE status
     ELSE UNCHANGED <<vertices, shared, currentStep, chromaticNumber, status>>
  /\ threw' = FALSE
  /\ UNCHANGED <<edges, selectedVertex, isStepByStep, coloringSteps, canvasVars, moves>>
  /\ UNCHANGED fnVars

\* confirmed: the answer to window.confirm
handleClearGraph(confirmed) ==
  /\ IF confirmed
     THEN /\ vertices' = <<>>
          /\ edges' = <<>>
          /\ selectedVertex' = NULL
          /\ chromaticNumber' = NULL
          /\ status' = StatusDraw
          /\ isStepByStep' = FALSE
          /\ currentStep' = 0
          /\ coloringSteps' = <<>>
          /\ shared' = <<>>
     ELSE UNCHANGED <<simVars, shared>>
  /\ threw' = FALSE
  /\ UNCHANGED <<canvasVars, moves>>
  /\ UNCHANGED fnVars

\* resetColoring() then the example replaces vertices, edges and the status
handleLoadExample(example) ==
  LET g == getExampleGraph(example) IN
  /\ vertices' = g.vertices
  /\ edges' = g.edges
  /\ selectedVertex' = NULL
  /\ chromaticNumber' = NULL
  /\ status' = StatusLoaded(example)
  /\ isStepByStep' = FALSE
  /\ currentStep' = 0
  /\ coloringSteps' = <<>>
  /\ shared' = NoShare(g.vertices)
  /\ threw' = FALSE
  /\ UNCHANGED <<canvasVars, moves>>
  /\ UNCHANGED fnVars

\* disabled={vertices.length === 0 || isStepByStep}
colorGraphDisabled == Len(vertices) = 0 \/ isStepByStep

\* disabled={vertices.length === 0 || (isStepByStep && currentStep < coloringSteps.length)}
stepByStepDisabled ==
  Len(vertices) = 0 \/ (isStepByStep /\ currentStep < Len(coloringSteps))

\* {isStepByStep && <Button disabled={currentStep >= coloringSteps.length}>}
nextStepDisabled == ~isStepByStep \/ currentStep >= Len(coloringSteps)

\* ------------------------------------------------------------------------
\* The application: pointer events on the canvas and presses of enabled buttons
\* ------------------------------------------------------------------------
PointerDown == \E p \in PointerPoints : handleMouseDown(p[1], p[2])

PointerMove == \E p \in PointerPoints : handleMouseMove(p[1], p[2])

PointerUp == handleMouseUp

PointerLeave == handleMouseLeave

ClickColorGraph == ~colorGraphDisabled /\ handleColorGraph

ClickStepByStep == ~stepByStepDisabled /\ handleStepByStepColoring

ClickNextStep == ~nextStepDisabled /\ handleNextStep

ClickClearGraph == \E confirmed \in BOOLEAN : handleClearGraph(confirmed)

SelectExample == \E example \in ExampleNames : handleLoadExample(example)

Next ==
  \/ PointerDown
  \/ PointerMove
  \/ PointerUp
  \/ PointerLeave
  \/ ClickColorGraph
  \/ ClickStepByStep
  \/ ClickNextStep
  \/ ClickClearGraph
  \/ SelectExample

Spec == Init /\ [][Next]_vars

\* ------------------------------------------------------------------------
\* The simulator's handlers called directly, whatever the buttons' disabled
\* state, on graphs built by pointer presses (no pointer moves)
\* ------------------------------------------------------------------------
CallColorGraph == handleColorGraph

CallStepByStep == handleStepByStepColoring

CallNextStep == handleNextStep

NextHandlers ==
  \/ PointerDown
  \/ PointerUp
  \/ CallColorGraph
  \/ CallStepByStep
  \/ CallNextStep
  \/ ClickClearGraph
  \/ SelectExample

SpecHandlers == Init /\ [][NextHandlers]_vars

\* ------------------------------------------------------------------------
\* The engine and the id allocation called directly on argument graphs that
\* satisfy the graph invariants: distinct ids, no self-loop, no duplicate edge,
\* every endpoint a vertex; the vertices may carry colors of an earlier coloring
\* ------------------------------------------------------------------------
IdPool == {0, 1, 2, 5}

ArgColors == {NULL} \cup (0..MaxColor)

ArgVertex(id, color) == [id |-> id, x |-> 100 + 50 * id, y |-> 100 + id, color |-> color]

\* the ids of an argument graph, in ascending or in descending order
ArgIdSeqs(n) ==
  {g \in [1..n -> IdPool] :
     \/ \A i, j \in 1..n : i < j => g[i] < g[j]
     \/ \A i, j \in 1..n : i < j => g[i] > g[j]}

ArgVertexSeqs ==
  UNION {{[i \in 1..n |-> ArgVertex(f[i], c[i])] :
            f \in ArgIdSeqs(n), c \in [1..n -> ArgColors]} : n \in 0..MaxN}

PositionPairs(n) == {p \in (1..n) \X (1..n) : p[1] < p[2]}

RECURSIVE PairsInOrder(_)
PairsInOrder(S) ==
  IF S = {} THEN <<>>
  ELSE LET p == CHOOSE q \in S :
                  \A r \in S : q[1] < r[1] \/ (q[1] = r[1] /\ q[2] <= r[2])
       IN <<p>> \o PairsInOrder(S \ {p})

\* the pair of positions (i, j) is stored from i to j or from j to i
ArgEdge(vs, p) ==
  IF (p[1] + p[2]) % 2 = 1 THEN Edge(vs[p[1]].id, vs[p[2]].id)
  ELSE Edge(vs[p[2]].id, vs[p[1]].id)

ArgEdgeSeqs(vs) ==
  {[k \in 1..Len(PairsInOrder(S)) |-> ArgEdge(vs, PairsInOrder(S)[k])] :
     S \in SUBSET PositionPairs(Len(vs))}

appVars == <<vertices, edges, selectedVertex, chromaticNumber, status,
             isStepByStep, currentStep, coloringSteps,
             hoveredVertex, isDragging, draggedVertex, shared, threw, moves>>

InitFn ==
  /\ vertices = <<>>
  /\ edges = <<>>
  /\ selectedVertex = NULL
  /\ chromaticNumber = NULL
  /\ status = StatusDraw
  /\ isStepByStep = FALSE
  /\ currentStep = 0
  /\ coloringSteps = <<>>
  /\ hoveredVertex = NULL
  /\ isDragging = FALSE
  /\ draggedVertex = NULL
  /\ shared = <<>>
  /\ threw = FALSE
  /\ moves = 0
  /\ argVertices \in ArgVertexSeqs
  /\ argEdges \in ArgEdgeSeqs(argVertices)
  /\ ret = NoRet
  /\ fnPc = "args"

\* colorGraph(argVertices, argEdges); the argument's vertex objects are the
\* ones the loop colors, so the argument carries the new colors afterwards
FnColorGraph ==
  /\ Len(argVertices) >= 1
  /\ LET r == colorGraph(argVertices, argEdges) IN
     /\ ret' = [NoRet EXCEPT !.coloredVertices = r.coloredVertices,
                             !.numColors = r.numColors]
     /\ argVertices' = r.coloredVertices
  /\ fnPc' = "colorGraph"
  /\ UNCHANGED argEdges
  /\ UNCHANGED appVars

\* colorGraphStepByStep(argVertices, argEdges) works on fresh copies
FnColorGraphStepByStep ==
  /\ Len(argVertices) >= 1
  /\ ret' = [NoRet EXCEPT !.steps = colorGraphStepByStep(argVertices, argEdges)]
  /\ fnPc' = "colorGraphStepByStep"
  /\ UNCHANGED <<argVertices, argEdges>>
  /\ UNCHANGED appVars

\* the vertex creation of handleMouseDown on the argument graph
FnAddVertex ==
  /\ fnPc = "args"
  /\ \E p \in Points : argVertices' = addVertex(argVertices, p[1], p[2])
  /\ ret' = NoRet
  /\ fnPc' = "addVertex"
  /\ UNCHANGED argEdges
  /\ UNCHANGED appVars

NextFn ==
  \/ FnColorGraph
  \/ FnColorGraphStepByStep
  \/ FnAddVertex

SpecFn == InitFn /\ [][NextFn]_vars

\* the application and the direct calls side by side: a behaviour is one or
\* the other
InitAll == Init \/ InitFn

NextAll == (fnPc = "idle" /\ Next) \/ NextFn

SpecAll == InitAll /\ [][NextAll]_vars

\* ------------------------------------------------------------------------
\* Vocabulary of the properties
\* ------------------------------------------------------------------------
\* a and b are joined by an edge, in either orientation
Adjacent(es, a, b) ==
  \E k \in 1..Len(es) : {es[k].source, es[k].target} = {a, b} /\ a # b

\* the color carried by the vertex with this id
ColorOfId(vs, id) == vs[CHOOSE i \in 1..Len(vs) : vs[i].id = id].color

\* the smallest non-negative integer outside S
Mex(S) == CHOOSE c \in 0..Cardinality(S) : c \notin S /\ \A d \in 0..(c - 1) : d \in S

\* every vertex carries a color
AllColored(vs) == \A i \in 1..Len(vs) : vs[i].color # NULL

\* the endpoints of every edge carry different colors
ProperOn(vs, es) ==
  \A k \in 1..Len(es) : ColorOfId(vs, es[k].source) # ColorOfId(vs, es[k].target)

\* first-fit in sequence order from all colors absent: the colors of the
\* first n vertices
RECURSIVE FirstFitColors(_, _, _)
FirstFitColors(vs, es, n) ==
  IF n = 0 THEN <<>>
  ELSE LET prev == FirstFitColors(vs, es, n - 1)
           used == {prev[j] : j \in {i \in 1..(n - 1) : Adjacent(es, vs[i].id, vs[n].id)}}
       IN Append(prev, Mex(used))

ColorsOf(vs) == [i \in 1..Len(vs) |-> vs[i].color]

MaxColorOf(vs) == SetMax({vs[i].color : i \in 1..Len(vs)})

\* ------------------------------------------------------------------------
\* C1  Properness of colorGraph: called on a graph with at least one vertex and
\* at least one edge that satisfies the graph invariants, whatever colors its
\* vertices carry, it returns every vertex colored and no edge joins two
\* vertices of the same color.
\* ------------------------------------------------------------------------
C1_Properness ==
  (fnPc = "colorGraph" /\ Len(argEdges) >= 1) =>
    /\ Len(ret.coloredVertices) = Len(argVertices)
    /\ AllColored(ret.coloredVertices)
    /\ ProperOn(ret.coloredVertices, argEdges)

\* a triangle has been colored with three colors
C1_Witness ==
  /\ fnPc = "colorGraph"
  /\ Len(argEdges) = 3
  /\ ret.numColors = 3

\* ------------------------------------------------------------------------
\* C2  colorGraph is the first-fit reference: whatever colors the vertices
\* carry on entry, it returns the coloring obtained from all colors absent by
\* giving each vertex, in sequence order, the smallest color not used by its
\* earlier neighbours, and the matching color count.
\* ------------------------------------------------------------------------
C2_FirstFitReference ==
  [][FnColorGraph =>
       /\ ColorsOf(ret'.coloredVertices)
            = FirstFitColors(argVertices, argEdges, Len(argVertices))
       /\ ret'.numColors
            = 1 + SetMax(Range(FirstFitColors(argVertices, argEdges, Len(argVertices))))]_vars

\* ------------------------------------------------------------------------
\* C3  Step sequence convergence: the last snapshot of colorGraphStepByStep(G)
\* is a proper coloring and gives every vertex the color colorGraph(G) gives
\* it, also when the vertices of G already carry colors.
\* ------------------------------------------------------------------------
C3_StepsConverge ==
  fnPc = "colorGraphStepByStep" =>
    LET last == ret.steps[Len(ret.steps)] IN
    /\ AllColored(last)
    /\ ProperOn(last, argEdges)
    /\ ColorsOf(last) = ColorsOf(colorGraph(argVertices, argEdges).coloredVertices)

\* ------------------------------------------------------------------------
\* C4  Step sequence structure: colorGraphStepByStep on n vertices returns
\* n + 1 snapshots; snapshot 0 is uncolored; snapshot k has exactly the first
\* k vertices colored and differs from snapshot k - 1 only in the color of the
\* k-th vertex, the smallest color not used by its colored neighbours in
\* snapshot k - 1; ids, positions and order are those of the argument.
\* ------------------------------------------------------------------------
C4_StepStructure ==
  fnPc = "colorGraphStepByStep" =>
    LET steps == ret.steps
        n == Len(argVertices)
    IN /\ Len(steps) = n + 1
       /\ \A s \in 1..(n + 1) :
            /\ Len(steps[s]) = n
            /\ \A i \in 1..n :
                 /\ steps[s][i].id = argVertices[i].id
                 /\ steps[s][i].x = argVertices[i].x
                 /\ steps[s][i].y = argVertices[i].y
       /\ \A i \in 1..n : steps[1][i].color = NULL
       /\ \A k \in 1..n :
            /\ \A i \in 1..n : (i <= k) <=> (steps[k + 1][i].color # NULL)
            /\ \A i \in 1..n : i # k => steps[k + 1][i] = steps[k][i]
            /\ steps[k + 1][k].color =
                 Mex({steps[k][j].color :
                        j \in {i \in 1..n :
                                 /\ Adjacent(argEdges, steps[k][i].id, steps[k][k].id)
                                 /\ steps[k][i].color # NULL}})

\* a replay of three previously colored vertices that ends with three colors
C4_Witness ==
  /\ fnPc = "colorGraphStepByStep"
  /\ Len(ret.steps) = 4
  /\ AllColored(argVertices)
  /\ MaxColorOf(ret.steps[4]) = 2

\* ------------------------------------------------------------------------
\* C5  Edge endpoints always exist: in every state the application reaches,
\* the source and the target of every stored edge are ids of vertices of the
\* current vertex sequence.
\* ------------------------------------------------------------------------
C5_EdgeEndpointsExist ==
  \A k \in 1..Len(edges) :
    edges[k].source \in Ids(vertices) /\ edges[k].target \in Ids(vertices)

\* ------------------------------------------------------------------------
\* C6  No self-loops and no duplicate edges: in every reachable state no
\* stored edge has source = target and no unordered pair is stored twice in
\* either orientation; a pointer press that requests an edge between vertices
\* that are adjacent already leaves the edges unchanged.
\* ------------------------------------------------------------------------
NoSelfLoop == \A k \in 1..Len(edges) : edges[k].source # edges[k].target

NoDuplicateEdge ==
  \A k, l \in 1..Len(edges) :
    k # l => {edges[k].source, edges[k].target} # {edges[l].source, edges[l].target}

RequestAdjacentEdge ==
  \E p \in Points :
    /\ handleMouseDown(p[1], p[2])
    /\ selectedVertex # NULL
    /\ Adjacent(edges, selectedVertex, getVertexAtPosition(vertices, p[1], p[2]))

C6_NoLoopNoDuplicate ==
  /\ [](NoSelfLoop /\ NoDuplicateEdge)
  /\ [][RequestAdjacentEdge => edges' = edges]_vars

\* the press that ended on the source of the only edge with the selection
\* cleared: the edge was requested again from its target
C6_Witness ==
  /\ Len(edges) = 1
  /\ selectedVertex = NULL
  /\ isDragging
  /\ draggedVertex = edges[1].source

\* ------------------------------------------------------------------------
\* C7  Proper coloring after every coloring operation on the store: right
\* after Color Graph and right after each Next Step, no edge of the current
\* graph joins two vertices whose colors are both present and equal.
\* ------------------------------------------------------------------------
ColorOrNull(vs, id) ==
  IF id \in Ids(vs) THEN ColorOfId(vs, id) ELSE NULL

ProperStore ==
  \A k \in 1..Len(edges) :
    LET a == ColorOrNull(vertices, edges[k].source)
        b == ColorOrNull(vertices, edges[k].target)
    IN ~(a # NULL /\ b # NULL /\ a = b)

C7_ProperAfterColoring ==
  [][(ClickColorGraph \/ ClickNextStep) => ProperStore']_vars

\* ------------------------------------------------------------------------
\* C8  Color-count consistency: the count colorGraph returns, and the count
\* the application publishes (by Color Graph or at the last step of a
\* replay), is 1 + the largest color of the resulting graph and at most the
\* number of its vertices.
\* ------------------------------------------------------------------------
C8_ColorCount ==
  /\ fnPc = "colorGraph" =>
       /\ ret.numColors = 1 + MaxColorOf(ret.coloredVertices)
       /\ ret.numColors <= Len(argVertices)
  /\ chromaticNumber # NULL =>
       /\ Len(vertices) >= 1
       /\ chromaticNumber = 1 + MaxColorOf(vertices)
       /\ chromaticNumber <= Len(vertices)

\* a replay has shown its last snapshot and published three colors
C8_Witness ==
  /\ isStepByStep
  /\ currentStep = Len(coloringSteps)
  /\ currentStep >= 1
  /\ vertices = coloringSteps[currentStep]
  /\ chromaticNumber = 3

\* ------------------------------------------------------------------------
\* C9  Fresh id allocation and id uniqueness: a vertex added to a graph gets
\* id = max(existing ids) + 1, gaps not filled ({0,2,5} gives 6), id 0 on an
\* empty graph, and color absent; in every reachable state the ids of the
\* vertex sequence are pairwise distinct.
\* ------------------------------------------------------------------------
UniqueIds(vs) == \A i, j \in 1..Len(vs) : i # j => vs[i].id # vs[j].id

\* the last vertex of now is the one vertex added to before
AddedFresh(before, now) ==
  /\ Len(now) = Len(before) + 1
  /\ SubSeq(now, 1, Len(before)) = before
  /\ now[Len(now)].color = NULL
  /\ now[Len(now)].id = IF Len(before) = 0 THEN 0 ELSE SetMax(Ids(before)) + 1

C9_FreshIds ==
  /\ [](/\ UniqueIds(vertices)
        /\ UniqueIds(argVertices)
        /\ fnPc = "addVertex" =>
             AddedFresh(SubSeq(argVertices, 1, Len(argVertices) - 1), argVertices))
  /\ [][(vertices' # vertices /\ PointerDown) => AddedFresh(vertices, vertices')]_vars
  /\ [][FnAddVertex => AddedFresh(argVertices, argVertices')]_vars

\* a vertex was added to the ids 0, 2, 5 and got id 6
C9_Witness ==
  /\ fnPc = "addVertex"
  /\ Len(argVertices) = 4
  /\ Ids(SubSeq(argVertices, 1, 3)) = {0, 2, 5}
  /\ argVertices[4].id = 6

\* ------------------------------------------------------------------------
\* C10  Zero-vertex rejection: a Color Graph or Step-By-Step Coloring request
\* on an empty vertex sequence changes the status message only; vertices,
\* edges, selection, published color count, replay flag, step cursor and
\* stored steps stay as they are and nothing is raised.
\* ------------------------------------------------------------------------
C10_ZeroVertexRejection ==
  [][((CallColorGraph \/ CallStepByStep) /\ Len(vertices) = 0) =>
       /\ status' = StatusEmpty
       /\ ~threw'
       /\ UNCHANGED <<vertices, edges, selectedVertex, chromaticNumber,
                      isStepByStep, currentStep, coloringSteps>>]_vars

\* a coloring request on the empty graph has been rejected
C10_Witness ==
  /\ Len(vertices) = 0
  /\ status = StatusEmpty

\* ------------------------------------------------------------------------
\* C11  No escaping exceptions: in every state the application reaches,
\* Color Graph and Step-By-Step Coloring complete without raising; building
\* the adjacency index never meets an edge whose endpoint is no vertex.
\* ------------------------------------------------------------------------
C11_NoException == ~threw

\* ------------------------------------------------------------------------
\* C12  Zero-edge shortcut: on a graph with at least one vertex and no edge,
\* Color Graph gives every vertex color 0 and publishes the count 1, which is
\* what colorGraph returns for that graph whatever colors the vertices carry.
\* ------------------------------------------------------------------------
AllZero(vs) == \A i \in 1..Len(vs) : vs[i].color = 0

C12_ZeroEdgeShortcut ==
  /\ [][(ClickColorGraph /\ Len(edges) = 0) =>
          /\ Len(vertices') = Len(vertices)
          /\ AllZero(vertices')
          /\ chromaticNumber' = 1
          /\ ColorsOf(vertices') = ColorsOf(colorGraph(vertices, edges).coloredVertices)
          /\ chromaticNumber' = colorGraph(vertices, edges).numColors]_vars
  /\ [][(FnColorGraph /\ Len(argEdges) = 0) =>
          /\ AllZero(ret'.coloredVertices)
          /\ ret'.numColors = 1]_vars

\* two or more vertices without an edge have been colored by the shortcut
C12_Witness ==
  /\ Len(vertices) >= 2
  /\ Len(edges) = 0
  /\ AllZero(vertices)
  /\ chromaticNumber = 1
  /\ status = StatusColored(1)

\* ------------------------------------------------------------------------
\* C13  Catalog scenarios: Color Graph on the freshly loaded 5-cycle gives
\* the colors 0,1,0,1,2 to the vertices 0..4 and the count 3; on the freshly
\* loaded K4 four pairwise distinct colors and the count 4; on the freshly
\* loaded bipartite 3+3 graph the count 2.
\* ------------------------------------------------------------------------
FreshlyLoaded(example) ==
  /\ vertices = getExampleGraph(example).vertices
  /\ edges = getExampleGraph(example).edges

C13_CatalogScenarios ==
  /\ [][(ClickColorGraph /\ FreshlyLoaded("cycle")) =>
          /\ ColorsOf(vertices') = <<0, 1, 0, 1, 2>>
          /\ Ids(vertices') = 0..4
          /\ \A i \in 1..5 : vertices'[i].id = i - 1
          /\ chromaticNumber' = 3]_vars
  /\ [][(ClickColorGraph /\ FreshlyLoaded("complete")) =>
          /\ Len(vertices') = 4
          /\ Cardinality(Range(ColorsOf(vertices'))) = 4
          /\ NULL \notin Range(ColorsOf(vertices'))
          /\ chromaticNumber' = 4]_vars
  /\ [][(ClickColorGraph /\ FreshlyLoaded("bipartite")) =>
          /\ Len(vertices') = 6
          /\ chromaticNumber' = 2]_vars

\* each of the three examples has been loaded and colored
C13_Witness ==
  /\ status = StatusColored(3)
  /\ edges = getCycleGraph.edges
  /\ ColorsOf(vertices) = <<0, 1, 0, 1, 2>>

C13_WitnessComplete ==
  /\ status = StatusColored(4)
  /\ chromaticNumber = 4
  /\ edges = getCompleteGraph.edges
  /\ Len(vertices) = 4

C13_WitnessBipartite ==
  /\ status = StatusColored(2)
  /\ edges = getBipartiteGraph.edges
  /\ Len(vertices) = 6

\* ------------------------------------------------------------------------
\* C14  colorGraph and colorGraphStepByStep leave the vertex records of their
\* argument unchanged: the caller's sequence is the same after the call.
\* ------------------------------------------------------------------------
C14_InputUnchanged ==
  [][(FnColorGraph \/ FnColorGraphStepByStep) => argVertices' = argVertices]_vars

\* ------------------------------------------------------------------------
\* C15  Colors change only through coloring or clearing: no pointer event
\* changes the color of an existing vertex, and a vertex it adds has no color;
\* after a confirmed Clear, after loading an example and after starting a
\* step replay every vertex has no color and no color count is published.
\* ------------------------------------------------------------------------
PointerEvent == PointerDown \/ PointerMove \/ PointerUp \/ PointerLeave

NoneColored(vs) == \A i \in 1..Len(vs) : vs[i].color = NULL

\* the step keeps every vertex with its color and adds uncolored ones only
ColorsKept ==
  /\ Len(vertices') >= Len(vertices)
  /\ \A i \in 1..Len(vertices) :
       /\ vertices'[i].id = vertices[i].id
       /\ vertices'[i].color = vertices[i].color
  /\ \A i \in (Len(vertices) + 1)..Len(vertices') : vertices'[i].color = NULL

\* the step leaves a store without any color and without a color count
ColorsCleared == NoneColored(vertices') /\ chromaticNumber' = NULL

\* read contrapositively: a step that does not keep the colors is no pointer
\* event, and a step that leaves a color or a count behind is none of Clear,
\* example load and replay start
C15_ColorsOnlyByColoring ==
  /\ [][~ColorsKept => ~PointerEvent]_vars
  /\ [][~ColorsCleared =>
          ~(handleClearGraph(TRUE) \/ SelectExample \/ ClickStepByStep)]_vars

\* a vertex has been added to a graph that was colored before
C15_Witness ==
  /\ ~isStepByStep
  /\ chromaticNumber # NULL
  /\ \E i \in 1..Len(vertices) : vertices[i].color # NULL
  /\ \E i \in 1..Len(vertices) : vertices[i].color = NULL

\* ------------------------------------------------------------------------
\* C16  No individual vertex deletion: a vertex stays in the store until
\* Clear or an example load; no pointer event, Color Graph, Step-By-Step
\* start or Next Step removes a vertex.
\* ------------------------------------------------------------------------
C16_NoVertexDeletion ==
  [][(PointerEvent \/ ClickColorGraph \/ ClickStepByStep \/ ClickNextStep) =>
       Ids(vertices) \subseteq Ids(vertices')]_vars

\* ------------------------------------------------------------------------
\* C17  pointerDown that hits a vertex v other than the selected one: with
\* nothing selected v becomes selected and the graph is unchanged; with
\* another vertex s selected the edge {source: s, target: v} is appended
\* exactly when s and v are not yet adjacent in either orientation, and the
\* selection is cleared. In both cases a drag of v begins and the vertex
\* sequence is unchanged.
\* ------------------------------------------------------------------------
C17_PointerDownOnVertex ==
  [][\A p \in PointerPoints :
       LET v == getVertexAtPosition(vertices, p[1], p[2]) IN
       (v # NULL /\ v # selectedVertex /\ handleMouseDown(p[1], p[2])) =>
         /\ selectedVertex = NULL =>
              /\ selectedVertex' = v
              /\ edges' = edges
         /\ selectedVertex # NULL =>
              /\ selectedVertex' = NULL
              /\ edges' = IF Adjacent(edges, selectedVertex, v)
                          THEN edges
                          ELSE Append(edges, [source |-> selectedVertex, target |-> v])
         /\ isDragging'
         /\ draggedVertex' = v
         /\ vertices' = vertices]_vars

\* an edge towards the vertex just pressed has been added, its drag is on
C17_Witness ==
  /\ Len(edges) >= 1
  /\ edges[Len(edges)].target = draggedVertex
  /\ edges[Len(edges)].source # draggedVertex
  /\ isDragging
  /\ selectedVertex = NULL

\* ------------------------------------------------------------------------
\* C18  pointerDown on empty space: with nothing selected exactly one vertex
\* is appended, at (x, y) and without color, and edges, selection and drag
\* state are unchanged; with a vertex selected only the selection is
\* cleared, no vertex or edge is added and no drag begins.
\* ------------------------------------------------------------------------
C18_PointerDownOnEmptySpace ==
  [][\A p \in PointerPoints :
       (getVertexAtPosition(vertices, p[1], p[2]) = NULL /\ handleMouseDown(p[1], p[2])) =>
         /\ selectedVertex = NULL =>
              /\ Len(vertices') = Len(vertices) + 1
              /\ SubSeq(vertices', 1, Len(vertices)) = vertices
              /\ vertices'[Len(vertices')].x = p[1]
              /\ vertices'[Len(vertices')].y = p[2]
              /\ vertices'[Len(vertices')].color = NULL
              /\ UNCHANGED <<edges, selectedVertex, isDragging, draggedVertex>>
         /\ selectedVertex # NULL =>
              /\ selectedVertex' = NULL
              /\ UNCHANGED <<vertices, edges, isDragging, draggedVertex>>]_vars

\* a second vertex has been drawn while the drag flag of the first was on
C18_Witness ==
  /\ Len(vertices) >= 2
  /\ Len(edges) = 0
  /\ selectedVertex = NULL
  /\ isDragging
  /\ draggedVertex = vertices[1].id
  /\ moves = 0
  /\ status = StatusDraw

\* ------------------------------------------------------------------------
\* C19  pointerDown on the currently selected vertex s deselects it: the
\* selection becomes empty and vertices and edges are unchanged.
\* As stated (C19_DeselectNoDrag): no drag is begun by this press.
\* As the code has it (C19_DeselectBeginsDrag): the press begins a drag of s
\* like every other press on a vertex, so a following pointerMove moves s.
\* ------------------------------------------------------------------------
C19_DeselectNoDrag ==
  [][\A p \in PointerPoints :
       LET s == getVertexAtPosition(vertices, p[1], p[2]) IN
       (selectedVertex # NULL /\ s = selectedVertex /\ handleMouseDown(p[1], p[2])) =>
         /\ selectedVertex' = NULL
         /\ UNCHANGED <<vertices, edges>>
         /\ UNCHANGED <<isDragging, draggedVertex>>]_vars

C19_DeselectBeginsDrag ==
  /\ [][\A p \in PointerPoints :
          LET s == getVertexAtPosition(vertices, p[1], p[2]) IN
          (selectedVertex # NULL /\ s = selectedVertex /\ handleMouseDown(p[1], p[2])) =>
            /\ selectedVertex' = NULL
            /\ UNCHANGED <<vertices, edges>>
            /\ isDragging'
            /\ draggedVertex' = s]_vars
  /\ [][\A p \in PointerPoints :
          (isDragging /\ selectedVertex = NULL /\ draggedVertex \in Ids(vertices)
             /\ handleMouseMove(p[1], p[2])) =>
            LET i == findIndex(vertices', draggedVertex) IN
            /\ vertices'[i].x = p[1]
            /\ vertices'[i].y = p[2]]_vars

\* the only vertex has been deselected by a press and moved by the drag the
\* press began
C19_Witness ==
  /\ Len(vertices) = 1
  /\ Len(edges) = 0
  /\ selectedVertex = NULL
  /\ isDragging
  /\ draggedVertex = vertices[1].id
  /\ moves >= 1

\* ------------------------------------------------------------------------
\* C20  A drag moves only the dragged vertex, and only while it lasts: a
\* pointerMove during a drag of d puts d at (x, y) and leaves the other
\* vertices, all ids and colors, the order, the edges and the selection
\* unchanged; pointerUp and pointerLeave end the drag without changing
\* selection or graph; with no drag on, pointerMove changes no vertex, and a
\* drag starts only with a pointerDown that hits a vertex.
\* ------------------------------------------------------------------------
C20_DragMovesOnlyDragged ==
  /\ [][\A p \in PointerPoints :
          (isDragging /\ draggedVertex # NULL /\ handleMouseMove(p[1], p[2])) =>
            /\ Len(vertices') = Len(vertices)
            /\ \A i \in 1..Len(vertices) :
                 vertices'[i] = IF vertices[i].id = draggedVertex
                                THEN [vertices[i] EXCEPT !.x = p[1], !.y = p[2]]
                                ELSE vertices[i]
            /\ UNCHANGED <<edges, selectedVertex>>]_vars
  /\ [][(PointerUp \/ PointerLeave) =>
          /\ ~isDragging'
          /\ draggedVertex' = NULL
          /\ UNCHANGED <<vertices, edges, selectedVertex>>]_vars
  /\ [][(~isDragging /\ PointerMove) => UNCHANGED <<vertices, edges, selectedVertex>>]_vars
  /\ [][(~isDragging /\ isDragging') =>
          \E p \in PointerPoints :
            /\ handleMouseDown(p[1], p[2])
            /\ getVertexAtPosition(vertices, p[1], p[2]) # NULL]_vars

\* one of two vertices has been dragged onto the other
C20_Witness ==
  /\ Len(vertices) >= 2
  /\ isDragging
  /\ moves >= 1
  /\ \E i, j \in 1..Len(vertices) :
       /\ i # j
       /\ vertices[i].x = vertices[j].x
       /\ vertices[i].y = vertices[j].y
       /\ vertices[i].id = draggedVertex

\* ------------------------------------------------------------------------
\* C21  Step replay protocol: after Step-By-Step Coloring on a graph with
\* n >= 1 vertices the cursor is 0 and n + 1 snapshots are stored; a Next
\* Step displays the snapshot at the cursor and advances the cursor by one;
\* the cursor never exceeds the number of snapshots, and a Next Step at the
\* end changes nothing; the color count is absent while the replay is not
\* finished and is published by the press that displays the last snapshot.
\* ------------------------------------------------------------------------
ReplayStarted ==
  /\ currentStep' = 0
  /\ Len(coloringSteps') = Len(vertices) + 1

ReplayAdvanced ==
  /\ vertices' = coloringSteps[currentStep + 1]
  /\ currentStep' = currentStep + 1
  /\ coloringSteps' = coloringSteps
  /\ chromaticNumber' # NULL <=> currentStep' = Len(coloringSteps)

C21_CursorInRange == currentStep <= Len(coloringSteps)

C21_NoCountBeforeEnd ==
  (isStepByStep /\ currentStep < Len(coloringSteps)) => chromaticNumber = NULL

C21_NextStepAdvances ==
  [][(currentStep < Len(coloringSteps) /\ ClickNextStep) => ReplayAdvanced]_vars

C21_NextStepAtEnd ==
  [][(currentStep >= Len(coloringSteps) /\ handleNextStep) =>
       UNCHANGED <<simVars, canvasVars>>]_vars

C21_StartStoresSnapshots ==
  [][(Len(vertices) >= 1 /\ ClickStepByStep) => ReplayStarted]_vars

C21_ReplayProtocol ==
  /\ [](C21_CursorInRange /\ C21_NoCountBeforeEnd)
  /\ C21_StartStoresSnapshots
  /\ C21_NextStepAdvances
  /\ C21_NextStepAtEnd

\* ------------------------------------------------------------------------
\* C22  Color Graph is idempotent: a second press of Color Graph right
\* after a first one, with no edit in between, leaves every vertex with the
\* color the first press gave it and publishes the same color count.
\* ------------------------------------------------------------------------
\* what handleColorGraph computes for a graph with vertices: the zero-edge
\* shortcut or the result of colorGraph
pressColorGraph(vs, es) ==
  IF Len(es) = 0
  THEN [coloredVertices |-> colorAllZero(vs), numColors |-> 1]
  ELSE colorGraph(vs, es)

C22_ColorGraphIdempotent ==
  [][(~threw' /\ ClickColorGraph) =>
       LET again == pressColorGraph(vertices', edges') IN
       /\ ColorsOf(again.coloredVertices) = ColorsOf(vertices')
       /\ again.numColors = chromaticNumber']_vars

\* ------------------------------------------------------------------------
\* C23  Selection and drag always name an existing vertex: in every
\* reachable state the selected vertex id and the dragged vertex id, when
\* set, are ids of the current vertex sequence, and the dragging flag is set
\* exactly when a dragged vertex id is set.
\* ------------------------------------------------------------------------
C23_SelectionExists == selectedVertex # NULL => selectedVertex \in Ids(vertices)

C23_DraggedExists == draggedVertex # NULL => draggedVertex \in Ids(vertices)

C23_DragFlag == isDragging <=> draggedVertex # NULL

C23_SelectionAndDragExist ==
  /\ C23_SelectionExists
  /\ C23_DraggedExists
  /\ C23_DragFlag

====
